---- MODULE Spec2Model ----
(***************************************************************************)
(* A state-machine model of the AegisML analytics engine:                  *)
(*   FailureEngine      src/src/lib/logic/FailureEngine.ts                 *)
(*   EpisodeMemory      src/src/lib/logic/CausalEngine.ts                  *)
(*   IntrospectionModel src/src/lib/logic/IntrospectionModel.ts            *)
(*   CausalEngine       src/src/lib/logic/CausalEngine.ts                  *)
(*   InterventionAdvisor                                                   *)
(*       src/introspect-ai/src/lib/logic/InterventionAdvisor.ts            *)
(*   MetricsCalculator  src/introspect-ai/src/lib/logic/MetricsExport.ts   *)
(*   calculateCorrelation, getRealCausalAnalysis                           *)
(*       src/introspect-ai/src/lib/logic/RealIntrospection.ts              *)
(*   ExperimentControl  src/unnamed/part_004                               *)
(*                                                                         *)
(* Numbers.  The program computes on IEEE doubles.  The model uses fixed   *)
(* point: a quantity q of the program is the integer q * Scale (Scale =    *)
(* 1000), so 0.15 is 150.  The inputs of the FailureEngine specifications  *)
(* are multiples of 0.005, so the mean of a window of five of them is      *)
(* again an integer number of thousandths and \div is exact.               *)
(***************************************************************************)
EXTENDS Integers, Sequences, FiniteSets, TLC

VARIABLES
    \* FailureEngine
    history,            \* this.history: sequence of [accuracy, loss, confidence]
    baselineAccuracy,   \* this.baselineAccuracy
    baselineLoss,       \* this.baselineLoss
    feRet,              \* what the last FailureEngine call returned
    \* EpisodeMemory
    episodes,           \* this.episodes
    now,                \* Date.now(), in ms since the model's origin
    inserted,           \* every episode ever pushed, seeds first (history variable)
    emRet,              \* the last EpisodeMemory call and what it returned
    \* IntrospectionModel
    ablations,          \* this.ablations
    weights,            \* this.weights
    noGroundTruthMode,  \* this.noGroundTruthMode
    imRet,              \* the last IntrospectionModel call and what it returned
    \* CausalEngine (it has no fields)
    ceRet,              \* the last discoverCausalStructure call and what it returned
    \* InterventionAdvisor (it has no fields)
    iaRet,              \* the last advise call and what it returned
    \* MetricsCalculator (it has no fields)
    mcRet,              \* the last calculateMetrics call and what it returned
    \* RealIntrospection (module functions)
    riRet,              \* the last getRealCausalAnalysis call and what it returned
    \* ExperimentControl (a React component)
    isRunning,          \* the isRunning state
    pollingIntervalRef, \* pollingIntervalRef.current: a timer id, 0 for null
    timers,             \* the ids of the intervals that are set and not cleared
    timerCount,         \* how many times setInterval has been called
    starts,             \* the handleStartExperiment calls: where each one stands
    restorePc,          \* where restoreState stands
    polls,              \* how many interval callbacks wait for api.getSignals
    pollCount           \* how many interval callbacks have been started

feVars == <<history, baselineAccuracy, baselineLoss, feRet>>

emVars == <<episodes, now, inserted, emRet>>

imVars == <<ablations, weights, noGroundTruthMode, imRet>>

ceVars == <<ceRet>>

iaVars == <<iaRet>>

mcVars == <<mcRet>>

riVars == <<riRet>>

ecVars == <<isRunning, pollingIntervalRef, timers, timerCount, starts,
            restorePc, polls, pollCount>>

vars == <<history, baselineAccuracy, baselineLoss, feRet, episodes, now, inserted,
          emRet, ablations, weights, noGroundTruthMode, imRet, ceRet, iaRet,
          mcRet, riRet, isRunning, pollingIntervalRef, timers, timerCount,
          starts, restorePc, polls, pollCount>>

Max(a, b) == IF a >= b THEN a ELSE b
Min(a, b) == IF a <= b THEN a ELSE b

(***************************************************************************)
(* FailureEngine                                                           *)
(***************************************************************************)

\* constructor defaults (config), in thousandths
accDegradationThresh == 150
lossIncreaseThresh == 500
confidenceCollapseThresh == 500
windowSize == 5
\* update: "if (this.history.length < 10)"
WarmupLen == 10

\* bounds of the specifications
MaxUpdates == 6
MaxWarmupUpdates == 11
MaxBoundaryUpdates == 6

Entry(a, l, c) == [accuracy |-> a, loss |-> l, confidence |-> c]

\* Array.prototype.slice(-n): the last n elements, all of them when fewer
SliceLast(s, n) == SubSeq(s, Max(1, Len(s) - n + 1), Len(s))

\* window.reduce((a, b) => a + b.<field>, 0)
RECURSIVE SumField(_, _)
SumField(w, f) ==
    IF w = <<>> THEN 0 ELSE SumField(SubSeq(w, 1, Len(w) - 1), f) + w[Len(w)][f]

\* reduce(...) / window.length
Avg(w, f) == SumField(w, f) \div Len(w)

NoFailure == [op |-> "checkFailure", isFailure |-> FALSE, failureType |-> "null",
              failureDuration |-> 0]

Failure(type, duration) ==
    [op |-> "checkFailure", isFailure |-> TRUE, failureType |-> type,
     failureDuration |-> duration]

\* calculateDuration: the single-entry predicate of each rule type
Match(type, data, bAcc, bLoss) ==
    CASE type = "ACCURACY_DEGRADATION" -> bAcc - data.accuracy > accDegradationThresh
      [] type = "LOSS_DIVERGENCE" -> data.loss - bLoss > lossIncreaseThresh
      [] type = "CONFIDENCE_COLLAPSE" -> data.confidence < confidenceCollapseThresh
      [] OTHER -> FALSE

\* calculateDuration: the loop from i = length - 1 down to 0, with its break
RECURSIVE DurationFrom(_, _, _, _, _)
DurationFrom(type, h, i, bAcc, bLoss) ==
    IF i < 1 THEN 0
    ELSE IF Match(type, h[i], bAcc, bLoss)
         THEN 1 + DurationFrom(type, h, i - 1, bAcc, bLoss)
         ELSE 0

\* a loop that skips a non-matching entry instead of breaking
RECURSIVE CountAllFrom(_, _, _, _, _)
CountAllFrom(type, h, i, bAcc, bLoss) ==
    IF i < 1 THEN 0
    ELSE (IF Match(type, h[i], bAcc, bLoss) THEN 1 ELSE 0)
         + CountAllFrom(type, h, i - 1, bAcc, bLoss)

calculateDurationNoBreak(type, h, bAcc, bLoss) == CountAllFrom(type, h, Len(h), bAcc, bLoss)

\* a duration that counts the reported epoch even when it does not match
calculateDurationAtLeastOne(type, h, bAcc, bLoss) ==
    Max(1, DurationFrom(type, h, Len(h), bAcc, bLoss))

calculateDuration(type, h, bAcc, bLoss) == DurationFrom(type, h, Len(h), bAcc, bLoss)

\* Rule 1: baselineAccuracy - avgAcc > accDegradationThresh
AccuracyRuleNonStrict(w, bAcc) == bAcc - Avg(w, "accuracy") >= accDegradationThresh

AccuracyRule(w, bAcc) == bAcc - Avg(w, "accuracy") > accDegradationThresh

\* Rule 2: avgLoss - baselineLoss > lossIncreaseThresh
LossRule(w, bLoss) == Avg(w, "loss") - bLoss > lossIncreaseThresh

\* Rule 3: avgConf < confidenceCollapseThresh
ConfidenceRule(w) == Avg(w, "confidence") < confidenceCollapseThresh

\* the rules of checkFailure, in the order of the code
RulesLossFirst(h, bAcc, bLoss) ==
    LET window == SliceLast(h, windowSize) IN
    IF LossRule(window, bLoss)
    THEN Failure("LOSS_DIVERGENCE", calculateDuration("LOSS_DIVERGENCE", h, bAcc, bLoss))
    ELSE IF AccuracyRule(window, bAcc)
    THEN Failure("ACCURACY_DEGRADATION",
                 calculateDuration("ACCURACY_DEGRADATION", h, bAcc, bLoss))
    ELSE IF ConfidenceRule(window)
    THEN Failure("CONFIDENCE_COLLAPSE",
                 calculateDuration("CONFIDENCE_COLLAPSE", h, bAcc, bLoss))
    ELSE NoFailure

Rules(h, bAcc, bLoss) ==
    LET window == SliceLast(h, windowSize) IN
    IF AccuracyRule(window, bAcc)
    THEN Failure("ACCURACY_DEGRADATION",
                 calculateDuration("ACCURACY_DEGRADATION", h, bAcc, bLoss))
    ELSE IF LossRule(window, bLoss)
    THEN Failure("LOSS_DIVERGENCE", calculateDuration("LOSS_DIVERGENCE", h, bAcc, bLoss))
    ELSE IF ConfidenceRule(window)
    THEN Failure("CONFIDENCE_COLLAPSE",
                 calculateDuration("CONFIDENCE_COLLAPSE", h, bAcc, bLoss))
    ELSE NoFailure

\* a guard that only rejects the empty history
checkFailureNonEmptyGuard(h, bAcc, bLoss) ==
    IF Len(h) < 1 THEN NoFailure ELSE Rules(h, bAcc, bLoss)

\* checkFailure(currentEpoch): currentEpoch is not read
checkFailure(h, bAcc, bLoss) ==
    IF Len(h) < windowSize THEN NoFailure ELSE Rules(h, bAcc, bLoss)

\* update that warms up while length <= 10
updateTenWarmup(epochData) ==
    /\ history' = Append(history, epochData)
    /\ IF Len(history') <= WarmupLen
       THEN /\ baselineAccuracy' = Max(baselineAccuracy, epochData.accuracy)
            /\ baselineLoss' = IF baselineLoss = 0 THEN epochData.loss
                               ELSE Min(baselineLoss, epochData.loss)
       ELSE UNCHANGED <<baselineAccuracy, baselineLoss>>
    /\ feRet' = [op |-> "update"]
    /\ UNCHANGED <<episodes, now, inserted, emRet>>
    /\ UNCHANGED <<ablations, weights, noGroundTruthMode, imRet>>
    /\ UNCHANGED <<ceRet, iaRet>>
    /\ UNCHANGED <<mcVars, riVars, ecVars>>

\* update that keeps only a window of the history
updateKeepWindow(epochData) ==
    /\ history' = SliceLast(Append(history, epochData), windowSize)
    /\ IF Len(history') < WarmupLen
       THEN /\ baselineAccuracy' = Max(baselineAccuracy, epochData.accuracy)
            /\ baselineLoss' = IF baselineLoss = 0 THEN epochData.loss
                               ELSE Min(baselineLoss, epochData.loss)
       ELSE UNCHANGED <<baselineAccuracy, baselineLoss>>
    /\ feRet' = [op |-> "update"]
    /\ UNCHANGED <<episodes, now, inserted, emRet>>
    /\ UNCHANGED <<ablations, weights, noGroundTruthMode, imRet>>
    /\ UNCHANGED <<ceRet, iaRet>>
    /\ UNCHANGED <<mcVars, riVars, ecVars>>

\* update(epochData)
update(epochData) ==
    /\ history' = Append(history, epochData)
    /\ IF Len(history') < WarmupLen
       THEN /\ baselineAccuracy' = Max(baselineAccuracy, epochData.accuracy)
            /\ baselineLoss' = IF baselineLoss = 0 THEN epochData.loss
                               ELSE Min(baselineLoss, epochData.loss)
       ELSE UNCHANGED <<baselineAccuracy, baselineLoss>>
    /\ feRet' = [op |-> "update"]
    /\ UNCHANGED <<episodes, now, inserted, emRet>>
    /\ UNCHANGED <<ablations, weights, noGroundTruthMode, imRet>>
    /\ UNCHANGED <<ceRet, iaRet>>
    /\ UNCHANGED <<mcVars, riVars, ecVars>>

\* a call of checkFailure: reads the state, returns, changes nothing
CheckFailure ==
    /\ feRet' = checkFailure(history, baselineAccuracy, baselineLoss)
    /\ UNCHANGED <<history, baselineAccuracy, baselineLoss>>
    /\ UNCHANGED <<episodes, now, inserted, emRet>>
    /\ UNCHANGED <<ablations, weights, noGroundTruthMode, imRet>>
    /\ UNCHANGED <<ceRet, iaRet>>
    /\ UNCHANGED <<mcVars, riVars, ecVars>>

\* new FailureEngine()
FEInit ==
    /\ history = <<>>
    /\ baselineAccuracy = 0
    /\ baselineLoss = 0
    /\ feRet = [op |-> "new"]

\* epochs a caller may report: healthy, failing on every signal, failing on
\* one signal only, and an epoch whose loss is exactly 0
Entries == { Entry(900, 200, 900), Entry(500, 2000, 400), Entry(900, 2000, 900),
             Entry(900, 200, 400), Entry(500, 200, 900), Entry(900, 0, 900) }

\* epochs for the warm-up of the baselines: a late epoch may beat the baseline
WarmupEntries == { Entry(900, 200, 900), Entry(950, 100, 900), Entry(500, 0, 400) }

\* epochs around the accuracy threshold; loss and confidence stay healthy
BoundaryEntries == { Entry(a, 200, 900) : a \in {900, 880, 750, 700, 650} }

Update == \E e \in Entries : Len(history) < MaxUpdates /\ update(e)

UpdateWarmup == \E e \in WarmupEntries : Len(history) < MaxWarmupUpdates /\ update(e)

UpdateBoundary ==
    \E e \in BoundaryEntries : Len(history) < MaxBoundaryUpdates /\ update(e)

NextFE == Update \/ CheckFailure

NextWarmup == UpdateWarmup

NextBoundary == UpdateBoundary \/ CheckFailure

(***************************************************************************)
(* Fixed-point helpers for Math.sqrt and Math.exp                          *)
(***************************************************************************)

\* Math.sqrt on a non-negative integer, rounded down (Newton's iteration)
RECURSIVE SqrtIter(_, _)
SqrtIter(n, x) ==
    LET y == (x + n \div x) \div 2 IN
    IF y >= x THEN x ELSE SqrtIter(n, y)

Sqrt(n) == IF n = 0 THEN 0 ELSE SqrtIter(n, n)

\* the Taylor series of exp at r (in 1/10000, 0 <= r < ln 2), from its k-th
\* term on; the terms and the sum are in units of 1/100000
RECURSIVE ExpSeries(_, _, _)
ExpSeries(r, k, term) ==
    IF term = 0 THEN 0 ELSE term + ExpSeries(r, k + 1, (term * r) \div (10000 * k))

\* Math.exp(t): t in thousandths, the result in units of 1/10000.  With t =
\* q * ln 2 + r, exp(t) = 2^q * exp(r); ln 2 is 0.693147.  Products are rounded
\* down; the result is within 4/10000 of exp(t) for -7000 <= t <= 1200.
Exp(t) ==
    LET z == t * 1000
        q == z \div 693147
        e == ExpSeries((z % 693147) \div 100, 1, 100000)
    IN IF q >= 0 THEN (e * 2^q) \div 10 ELSE (e \div 2^(-q)) \div 10

(***************************************************************************)
(* EpisodeMemory                                                           *)
(***************************************************************************)

\* "if (this.episodes.length > 100)"
MemoryCapacity == 100
\* ".slice(0, 3)"
TopK == 3
\* TIME_SCALE = 1000 * 60 * 60 * 24, in ms
TIME_SCALE == 86400000

\* bounds of the specifications
MaxAdds == 3
MaxEvictionAdds == 101
MaxDelays == 2
\* the model's clock: Date.now() at construction, and the time that may pass
\* between two calls (6 hours), in ms
ConstructTime == 1000000
Delay == 21600000

Snapshot(g, a) == [gradientNorm |-> g, activationEntropy |-> a]

Episode(id, ts, type, snap, outcome) ==
    [id |-> id, timestamp |-> ts, failureType |-> type, signalSnapshot |-> snap,
     outcome |-> outcome]

\* the two episodes the constructor pushes, t being Date.now()
SeedEpisodes(t) ==
    << Episode("mem-001", t - 1000000, "gradient_explosion", Snapshot(2500, 400), "failed"),
       Episode("mem-002", t - 500000, "collapse", Snapshot(500, 100), "failed") >>

\* new EpisodeMemory()
EMInit ==
    /\ now = ConstructTime
    /\ episodes = SeedEpisodes(now)
    /\ inserted = SeedEpisodes(now)
    /\ emRet = [op |-> "new"]

\* push, then pop: the newest episode is dropped instead of the oldest
EpisodesAfterAddDropNewest(eps, episode) ==
    LET pushed == Append(eps, episode) IN
    IF Len(pushed) > MemoryCapacity THEN SubSeq(pushed, 1, Len(pushed) - 1) ELSE pushed

\* addEpisode: push, then shift when the length exceeds the capacity
EpisodesAfterAdd(eps, episode) ==
    LET pushed == Append(eps, episode) IN
    IF Len(pushed) > MemoryCapacity THEN Tail(pushed) ELSE pushed

\* findSimilar, the body of the map callback: the similarity of one episode to
\* currentSignal at time t, in units of 1e-9.  dist is in thousandths, rawSim
\* and decay in 1/10000, the factor 0.9 + 0.1 * decay in 1/100000.
Similarity(episode, currentSignal, t) ==
    LET dg == episode.signalSnapshot.gradientNorm - currentSignal.gradientNorm
        da == episode.signalSnapshot.activationEntropy - currentSignal.activationEntropy
        dist == Sqrt(dg * dg + da * da)
        age == t - episode.timestamp
        decay == Exp(-(age \div (TIME_SCALE \div 1000)))
        rawSim == 10000000 \div (1000 + dist)
    IN rawSim * (90000 + decay)

Scored(episode, currentSignal, t) ==
    [episode |-> episode, similarity |-> Similarity(episode, currentSignal, t),
     metric |-> "Weighted Euclidean"]

\* Array.prototype.sort((a, b) => b.similarity - a.similarity): stable and
\* descending, so element i comes after the elements that are more similar and
\* the equally similar ones that stood before it
SortDesc(s) ==
    LET rank(i) == 1 + Cardinality({j \in 1..Len(s) :
                        \/ s[j].similarity > s[i].similarity
                        \/ s[j].similarity = s[i].similarity /\ j < i})
    IN [k \in 1..Len(s) |-> s[CHOOSE i \in 1..Len(s) : rank(i) = k]]

\* slice before sort: the first three episodes, sorted
findSimilarSliceFirst(eps, currentSignal, t) ==
    LET scored == [i \in 1..Len(eps) |-> Scored(eps[i], currentSignal, t)]
    IN SortDesc(SubSeq(scored, 1, Min(TopK, Len(scored))))

\* findSimilar(currentSignal), with now = t: map, sort, slice(0, 3)
findSimilar(eps, currentSignal, t) ==
    LET scored == [i \in 1..Len(eps) |-> Scored(eps[i], currentSignal, t)]
        sorted == SortDesc(scored)
    IN SubSeq(sorted, 1, Min(TopK, Len(sorted)))

\* a call of addEpisode, dt ms after the previous call
AddEpisode(episode, dt) ==
    /\ now' = now + dt
    /\ episodes' = EpisodesAfterAdd(episodes, episode)
    /\ inserted' = Append(inserted, episode)
    /\ emRet' = [op |-> "addEpisode"]
    /\ UNCHANGED <<feVars, imVars, ceVars, iaVars>>
    /\ UNCHANGED <<mcVars, riVars, ecVars>>

\* a findSimilar that sorts this.episodes itself, by similarity
FindSimilarInPlace(currentSignal, dt) ==
    /\ now' = now + dt
    /\ emRet' = [op |-> "findSimilar", arg |-> currentSignal,
                 results |-> findSimilar(episodes, currentSignal, now')]
    /\ episodes' =
          LET sorted == SortDesc([i \in 1..Len(episodes) |->
                                     Scored(episodes[i], currentSignal, now')])
          IN [i \in 1..Len(sorted) |-> sorted[i].episode]
    /\ UNCHANGED inserted
    /\ UNCHANGED <<feVars, imVars, ceVars, iaVars>>
    /\ UNCHANGED <<mcVars, riVars, ecVars>>

\* a call of findSimilar, dt ms after the previous call
FindSimilar(currentSignal, dt) ==
    /\ now' = now + dt
    /\ emRet' = [op |-> "findSimilar", arg |-> currentSignal,
                 results |-> findSimilar(episodes, currentSignal, now')]
    /\ UNCHANGED <<episodes, inserted>>
    /\ UNCHANGED <<feVars, imVars, ceVars, iaVars>>
    /\ UNCHANGED <<mcVars, riVars, ecVars>>

\* what a caller may remember and ask for; the time between two calls
Snapshots == { Snapshot(2500, 400), Snapshot(500, 100), Snapshot(1200, 900),
               Snapshot(600, 1500) }
Queries == { Snapshot(2500, 400), Snapshot(800, 500), Snapshot(600, 1500) }
Delays == {0, Delay}

\* the clock of the model stops MaxDelays delays after the construction
ClockAllows(dt) == dt = 0 \/ now + dt <= ConstructTime + MaxDelays * Delay

\* the episode a caller records at time t as its n-th
NewEpisode(n, t, snap) == Episode(n, t, "drift", snap, "recovered")

Remember ==
    \E snap \in Snapshots, dt \in Delays :
        /\ Len(inserted) < 2 + MaxAdds
        /\ ClockAllows(dt)
        /\ AddEpisode(NewEpisode(Len(inserted) - 1, now + dt, snap), dt)

Recall == \E q \in Queries, dt \in Delays : ClockAllows(dt) /\ FindSimilar(q, dt)

\* the same calls with one snapshot and no delay, to fill the memory
RememberMany ==
    /\ Len(inserted) < 2 + MaxEvictionAdds
    /\ AddEpisode(NewEpisode(Len(inserted) - 1, now, Snapshot(1200, 900)), 0)

RecallMany == FindSimilar(Snapshot(800, 500), 0)

NextMemory == Remember \/ Recall

NextEviction == RememberMany \/ RecallMany


(***************************************************************************)
(* IntrospectionModel                                                      *)
(***************************************************************************)

Families == {"gradient", "activation", "entropy", "latent"}

Signal(g, a, l, c) ==
    [gradientNorm |-> g, activationEntropy |-> a, latentDrift |-> l,
     confidenceDispersion |-> c]

\* new IntrospectionModel(): the field initialisers
IMInit ==
    /\ ablations = {}
    /\ weights = [gradient |-> 1, activation |-> 1, entropy |-> 1, latent |-> 1]
    /\ noGroundTruthMode = FALSE
    /\ imRet = [op |-> "new"]

\* setAblations that rebuilds three weights and forgets weights.latent
WeightsOfForgetLatent(abl) ==
    [gradient |-> IF "gradient" \in abl THEN 0 ELSE 1,
     activation |-> IF "activation" \in abl THEN 0 ELSE 1,
     entropy |-> IF "entropy" \in abl THEN 0 ELSE 1,
     latent |-> 1]

\* setAblations: the weight vector built from the set
WeightsOf(abl) ==
    [gradient |-> IF "gradient" \in abl THEN 0 ELSE 1,
     activation |-> IF "activation" \in abl THEN 0 ELSE 1,
     entropy |-> IF "entropy" \in abl THEN 0 ELSE 1,
     latent |-> IF "latent" \in abl THEN 0 ELSE 1]

\* a riskScore whose gradient term is not clamped at 0
RiskScoreUnclamped(signals, w) ==
    (IF w.gradient > 0
     THEN ((signals.gradientNorm - 800) * 5 * w.gradient) \div 10 ELSE 0)
    + (IF w.activation > 0
       THEN (Max(0, 1000 - signals.activationEntropy) * 4 * w.activation) \div 10 ELSE 0)
    + (IF w.latent > 0
       THEN (Max(0, signals.latentDrift - 1000) * 8 * w.latent) \div 10 ELSE 0)
    + (IF w.entropy > 0
       THEN (Max(0, 200 - signals.confidenceDispersion) * 5 * w.entropy) \div 10 ELSE 0)

\* predictFailureRisk: riskScore after the four gated additions, in thousandths
RiskScore(signals, w) ==
    (IF w.gradient > 0
     THEN (Max(0, signals.gradientNorm - 800) * 5 * w.gradient) \div 10 ELSE 0)
    + (IF w.activation > 0
       THEN (Max(0, 1000 - signals.activationEntropy) * 4 * w.activation) \div 10 ELSE 0)
    + (IF w.latent > 0
       THEN (Max(0, signals.latentDrift - 1000) * 8 * w.latent) \div 10 ELSE 0)
    + (IF w.entropy > 0
       THEN (Max(0, 200 - signals.confidenceDispersion) * 5 * w.entropy) \div 10 ELSE 0)

\* 1 / (1 + Math.exp(-4 * (riskScore - 0.3))), in units of 1/10000
Probability(riskScore) == 100000000 \div (10000 + Exp(-4 * (riskScore - 300)))

\* the bands with "Elevated" starting at 0.5
LevelElevatedAtHalf(probability) ==
    IF probability > 8000 THEN "Critical"
    ELSE IF probability > 5000 THEN "Elevated"
    ELSE IF probability > 3000 THEN "Emerging"
    ELSE "Low"

\* the probabilistic bands
Level(probability) ==
    IF probability > 8000 THEN "Critical"
    ELSE IF probability > 6000 THEN "Elevated"
    ELSE IF probability > 3000 THEN "Emerging"
    ELSE "Low"

\* Math.min(0.2, (signals.confidenceDispersion || 0.1) * 0.5), in 1/10000:
\* "x || 0.1" is 0.1 when x is 0
Uncertainty(signals) ==
    LET d == IF signals.confidenceDispersion = 0 THEN 100
             ELSE signals.confidenceDispersion
    IN Min(2000, d * 5)

\* predictFailureRisk(signals) under the weights w
predictFailureRisk(signals, w) ==
    LET probability == Probability(RiskScore(signals, w))
        uncertainty == Uncertainty(signals)
    IN [score |-> probability,
        level |-> Level(probability),
        confidenceLower |-> Max(0, probability - uncertainty),
        confidenceUpper |-> Min(10000, probability + uncertainty)]

\* getModelHealth()
getModelHealth(mode) ==
    IF mode THEN "UNSUPERVISED_MONITORING" ELSE "SUPERVISED_VALIDATION"

\* setAblations(list) that only switches families off
setAblationsIncremental(list) ==
    /\ ablations' = ablations \cup list
    /\ weights' = WeightsOf(ablations')
    /\ imRet' = [op |-> "setAblations", arg |-> list, replaced |-> ablations]
    /\ UNCHANGED noGroundTruthMode
    /\ UNCHANGED <<feVars, emVars, ceVars, iaVars>>
    /\ UNCHANGED <<mcVars, riVars, ecVars>>

\* setAblations(list): the list becomes a Set that replaces the one held, the
\* weights are rebuilt from it
setAblations(list) ==
    /\ ablations' = list
    /\ weights' = WeightsOf(ablations')
    /\ imRet' = [op |-> "setAblations", arg |-> list, replaced |-> ablations]
    /\ UNCHANGED noGroundTruthMode
    /\ UNCHANGED <<feVars, emVars, ceVars, iaVars>>
    /\ UNCHANGED <<mcVars, riVars, ecVars>>

\* setMode(noGroundTruth) that gives up the ablations when it enters the
\* mode without ground truth
setModeResetsWeights(noGroundTruth) ==
    /\ noGroundTruthMode' = noGroundTruth
    /\ imRet' = [op |-> "setMode"]
    /\ ablations' = ablations
    /\ weights' = IF noGroundTruth THEN WeightsOf({}) ELSE weights
    /\ UNCHANGED <<feVars, emVars, ceVars, iaVars>>
    /\ UNCHANGED <<mcVars, riVars, ecVars>>

\* setMode(noGroundTruth)
setMode(noGroundTruth) ==
    /\ noGroundTruthMode' = noGroundTruth
    /\ imRet' = [op |-> "setMode"]
    /\ UNCHANGED <<ablations, weights>>
    /\ UNCHANGED <<feVars, emVars, ceVars, iaVars>>
    /\ UNCHANGED <<mcVars, riVars, ecVars>>

\* a call of predictFailureRisk
PredictFailureRisk(signals) ==
    /\ imRet' = [op |-> "predictFailureRisk", arg |-> signals,
                 result |-> predictFailureRisk(signals, weights)]
    /\ UNCHANGED <<ablations, weights, noGroundTruthMode>>
    /\ UNCHANGED <<feVars, emVars, ceVars, iaVars>>
    /\ UNCHANGED <<mcVars, riVars, ecVars>>

\* a call of getModelHealth
GetModelHealth ==
    /\ imRet' = [op |-> "getModelHealth", result |-> getModelHealth(noGroundTruthMode)]
    /\ UNCHANGED <<ablations, weights, noGroundTruthMode>>
    /\ UNCHANGED <<feVars, emVars, ceVars, iaVars>>
    /\ UNCHANGED <<mcVars, riVars, ecVars>>

\* names a caller may pass to setAblations: the four families and a name
\* setAblations does not know
AblationNames == Families \cup {"loss"}

\* signals a caller may score: healthy; the spec's scenario; a signal with every
\* term at work; one that is extreme in every term; one with no dispersion
Signals == { Signal(500, 1500, 100, 300), Signal(1300, 900, 500, 50),
             Signal(1500, 600, 1200, 100), Signal(3000, 0, 2500, 0),
             Signal(800, 1000, 1000, 0) }

SetAblations == \E list \in SUBSET AblationNames : setAblations(list)

SetMode == \E noGroundTruth \in BOOLEAN : setMode(noGroundTruth)

Predict == \E signals \in Signals : PredictFailureRisk(signals)

NextIM == SetAblations \/ SetMode \/ Predict \/ GetModelHealth

(***************************************************************************)
(* CausalEngine.  Signal values, edge weights and confidences in           *)
(* thousandths; lags in epochs.                                            *)
(***************************************************************************)

Node(id, label, value, type) ==
    [id |-> id, label |-> label, value |-> value, type |-> type]

Link(source, target, weight, lag, confidence) ==
    [source |-> source, target |-> target, weight |-> weight, lag |-> lag,
     confidence |-> confidence]

CESignal(gv, lc, dn, ae, ld, cd) ==
    [gradientVariance |-> gv, lossCurvature |-> lc, deadNeuronRatio |-> dn,
     activationEntropy |-> ae, latentDrift |-> ld, confidenceDispersion |-> cd]

CEInit == ceRet = [op |-> "new"]

\* the confidence dispersion node takes the latent drift
nodesDriftTwice(signals) ==
    << Node("grad_var", "Gradient Variance", signals.gradientVariance, "root"),
       Node("loss_curve", "Loss Curvature", signals.lossCurvature, "root"),
       Node("dead_neurons", "Dead Neurons", signals.deadNeuronRatio, "mediator"),
       Node("act_entropy", "Activation Entropy", signals.activationEntropy, "mediator"),
       Node("latent_drift", "Latent Drift", signals.latentDrift, "mediator"),
       Node("conf_disp", "Confidence Dispersion", signals.latentDrift, "mediator"),
       Node("failure_risk", "Failure Risk", 0, "outcome") >>

\* const nodes: the fixed seven-node schema
nodes(signals) ==
    << Node("grad_var", "Gradient Variance", signals.gradientVariance, "root"),
       Node("loss_curve", "Loss Curvature", signals.lossCurvature, "root"),
       Node("dead_neurons", "Dead Neurons", signals.deadNeuronRatio, "mediator"),
       Node("act_entropy", "Activation Entropy", signals.activationEntropy, "mediator"),
       Node("latent_drift", "Latent Drift", signals.latentDrift, "mediator"),
       Node("conf_disp", "Confidence Dispersion", signals.confidenceDispersion, "mediator"),
       Node("failure_risk", "Failure Risk", 0, "outcome") >>

\* 1. Optimization Instability -> Representation Collapse
InstabilityLinks(signals) ==
    IF signals.lossCurvature > 1000
    THEN << Link("loss_curve", "grad_var", 800, 0, 950),
            Link("grad_var", "dead_neurons", 600, 2, 850) >>
    ELSE << >>

\* 2. Dead Neurons -> Entropy Drop
DeadNeuronLinks(signals) ==
    IF signals.deadNeuronRatio > 100
    THEN << Link("dead_neurons", "act_entropy", -900, 1, 920) >>
    ELSE << >>

\* the entropy rule that does not look at isFailing
EntropyLinksSignalOnly(signals, isFailing) ==
    IF signals.activationEntropy < 1000
    THEN << Link("act_entropy", "failure_risk", -850, 0, 900) >>
    ELSE << >>

\* 3. Entropy Drop + Drift -> Failure
EntropyLinks(signals, isFailing) ==
    IF signals.activationEntropy < 1000 \/ isFailing
    THEN << Link("act_entropy", "failure_risk", -850, 0, 900) >>
    ELSE << >>

\* the drift rule with the entropy node feeding back into the drift node
DriftLinksBothWays(signals) ==
    IF signals.latentDrift > 400
    THEN << Link("latent_drift", "failure_risk", 750, 5, 700),
            Link("latent_drift", "act_entropy", -500, 1, 600),
            Link("act_entropy", "latent_drift", -500, 1, 600) >>
    ELSE << >>

\* the latent drift rule, with the edge the code comments as "Feedback loop"
DriftLinks(signals) ==
    IF signals.latentDrift > 400
    THEN << Link("latent_drift", "failure_risk", 750, 5, 700),
            Link("latent_drift", "act_entropy", -500, 1, 600) >>
    ELSE << >>

\* Default structure if healthy, given the links pushed so far
DefaultLinks(pushed, isFailing) ==
    IF ~isFailing /\ Len(pushed) = 0
    THEN << Link("loss_curve", "grad_var", 200, 0, 400),
            Link("grad_var", "act_entropy", 100, 1, 300) >>
    ELSE << >>

\* the rules as an else-if chain: the first one that holds is the only one
linksElseIf(signals, isFailing) ==
    LET pushed ==
            IF signals.lossCurvature > 1000 THEN InstabilityLinks(signals)
            ELSE IF signals.deadNeuronRatio > 100 THEN DeadNeuronLinks(signals)
            ELSE IF signals.activationEntropy < 1000 \/ isFailing
                 THEN EntropyLinks(signals, isFailing)
            ELSE DriftLinks(signals)
    IN pushed \o DefaultLinks(pushed, isFailing)

\* const links: every rule is an if of its own, pushing in this order
links(signals, isFailing) ==
    LET pushed == InstabilityLinks(signals) \o DeadNeuronLinks(signals)
                  \o EntropyLinks(signals, isFailing) \o DriftLinks(signals)
    IN pushed \o DefaultLinks(pushed, isFailing)

discoverCausalStructure(signals, isFailing) ==
    [nodes |-> nodes(signals), links |-> links(signals, isFailing)]

DiscoverCausalStructure(signals, isFailing) ==
    /\ ceRet' = [op |-> "discoverCausalStructure", arg |-> signals,
                 isFailing |-> isFailing,
                 result |-> discoverCausalStructure(signals, isFailing)]
    /\ UNCHANGED <<feVars, emVars, imVars, iaVars>>
    /\ UNCHANGED <<mcVars, riVars, ecVars>>

\* every signal at its rule's threshold, where the rule does not fire, and
\* beyond it, where it does
CESignals ==
    { CESignal(gv, lc, dn, ae, ld, cd) :
        gv \in {300, 700}, lc \in {1000, 1500}, dn \in {100, 200},
        ae \in {500, 1000}, ld \in {400, 600}, cd \in {0, 200} }

Discover ==
    \E signals \in CESignals, isFailing \in BOOLEAN :
        DiscoverCausalStructure(signals, isFailing)

NextCE == Discover

(***************************************************************************)
(* InterventionAdvisor.  Risk scores, node values, gains, risks and        *)
(* confidences in thousandths.                                             *)
(***************************************************************************)

rootValueThresh == 600

riskGate == 300

fallbackRisk == 700

Intervention(id, action, targetMetric, expectedGain, risk, cost, confidence) ==
    [id |-> id, action |-> action, targetMetric |-> targetMetric,
     expectedGain |-> expectedGain, risk |-> risk, cost |-> cost,
     confidence |-> confidence]

IAInit == iaRet = [op |-> "new"]

\* causalGraph.nodes.filter(n => n.type === 'root' && n.value > 0.6)
rootCauses(causalGraph) ==
    SelectSeq(causalGraph.nodes,
              LAMBDA n : n.type = "root" /\ n.value > rootValueThresh)

\* one turn of the forEach: what a root cause pushes
RootInterventions(root) ==
    (IF root.id = "grad_var"
     THEN << Intervention("int-01", "Reduce Learning Rate (0.5x)",
                          "Gradient Variance", 400, 100, "Low", 850),
             Intervention("int-02", "Increase Batch Size (2x)",
                          "Gradient Variance", 300, 200, "Medium", 750) >>
     ELSE << >>)
    \o
    (IF root.id = "loss_curve"
     THEN << Intervention("int-03", "Enable Gradient Clipping",
                          "Loss Curvature", 500, 50, "Low", 920) >>
     ELSE << >>)

RECURSIVE ForEachRoot(_)
\* rootCauses.forEach: the pushes of the root causes, in their order
ForEachRoot(roots) ==
    IF Len(roots) = 0 THEN << >>
    ELSE RootInterventions(Head(roots)) \o ForEachRoot(Tail(roots))

\* the fallback at a risk score of 0.7 too
FallbackFromSeventy(interventions, riskScore) ==
    IF Len(interventions) = 0 /\ riskScore >= fallbackRisk
    THEN << Intervention("int-99", "Early Stop & Rollback", "Overall Risk",
                         900, 0, "High", 990) >>
    ELSE interventions

\* Fallback if high risk but no clear root: the list after the fallback's if
Fallback(interventions, riskScore) ==
    IF Len(interventions) = 0 /\ riskScore > fallbackRisk
    THEN << Intervention("int-99", "Early Stop & Rollback", "Overall Risk",
                         900, 0, "High", 990) >>
    ELSE interventions

\* the list as it was pushed
InPushOrder(s) == s

\* sort((a, b) => b.expectedGain - a.expectedGain): stable and descending
SortByExpectedGain(s) ==
    LET rank(i) == 1 + Cardinality({j \in 1..Len(s) :
                        \/ s[j].expectedGain > s[i].expectedGain
                        \/ s[j].expectedGain = s[i].expectedGain /\ j < i})
    IN [k \in 1..Len(s) |-> s[CHOOSE i \in 1..Len(s) : rank(i) = k]]

\* the early return at a risk score of 0.3 too
adviseGateAtThreshold(riskScore, causalGraph) ==
    IF riskScore <= riskGate THEN << >>
    ELSE SortByExpectedGain(
             Fallback(ForEachRoot(rootCauses(causalGraph)), riskScore))

advise(riskScore, causalGraph) ==
    IF riskScore < riskGate THEN << >>
    ELSE SortByExpectedGain(
             Fallback(ForEachRoot(rootCauses(causalGraph)), riskScore))

Advise(riskScore, causalGraph) ==
    /\ iaRet' = [op |-> "advise", riskScore |-> riskScore,
                 causalGraph |-> causalGraph,
                 result |-> advise(riskScore, causalGraph)]
    /\ UNCHANGED <<feVars, emVars, imVars, ceVars>>
    /\ UNCHANGED <<mcVars, riVars, ecVars>>

\* risk scores below, at and above the gate and the fallback's threshold
RiskScores == {0, 299, 300, 500, 700, 701, 900}

\* grad_var and loss_curve at and above the root-cause value, grad_var as a
\* root or not, and a third node that may be a root of another name
IANodes ==
    { Node("grad_var", "Gradient Variance", v, t) :
        v \in {600, 900}, t \in {"root", "mediator"} }
    \cup { Node("loss_curve", "Loss Curvature", v, "root") : v \in {600, 900} }
    \cup { Node("latent_drift", "Latent Drift", 900, t) :
             t \in {"root", "mediator"} }

\* graphs of three nodes with distinct ids, in every order
CausalGraphs ==
    { [nodes |-> ns, links |-> << >>] :
        ns \in { s \in [1..3 -> IANodes] :
                   \A i, j \in 1..3 : i # j => s[i].id # s[j].id } }

AdviseAny ==
    \E riskScore \in RiskScores, causalGraph \in CausalGraphs :
        Advise(riskScore, causalGraph)

NextIA == AdviseAny

(***************************************************************************)
(* MetricsCalculator.  Signal values in thousandths, epochs as integers.   *)
(* ISS and PSU are in units of 1/10000, ICC in thousandths, FAH in epochs. *)
(* A number of the program that may be NaN is a record [nan, val].         *)
(***************************************************************************)

RecentWindow == 20

FallbackHorizon == 15

detectGradVar == 800

detectEntropy == 1000

Num(v) == [nan |-> FALSE, val |-> v]

NaN == [nan |-> TRUE, val |-> 0]

EpochSignal(epoch, gv, ld, pe, ae) ==
    [epoch |-> epoch, gradientVariance |-> gv, latentDrift |-> ld,
     predictionEntropy |-> pe, activationEntropy |-> ae]

\* failureEpoch: number | null
NoEpoch == [isNull |-> TRUE, value |-> 0]

EpochAt(n) == [isNull |-> FALSE, value |-> n]

MCInit == mcRet = [op |-> "new"]

\* the whole history instead of its last 20 records
RecentIsAll(signals) == signals

\* signals.slice(-20)
Recent(signals) == SliceLast(signals, RecentWindow)

\* recent.reduce((sum, s) => sum + s.<f>, 0) / recent.length, in 1/10000;
\* for an empty window this is 0 / 0, which is NaN
Mean(recent, f) ==
    IF Len(recent) = 0 THEN NaN
    ELSE Num((SumField(recent, f) * 10) \div Len(recent))

\* 1.0 / (1.0 + gradVar + drift), in 1/10000; NaN if a mean is NaN
ISS(recent) ==
    LET gradVar == Mean(recent, "gradientVariance")
        drift == Mean(recent, "latentDrift")
    IN IF gradVar.nan \/ drift.nan THEN NaN
       ELSE Num(100000000 \div (10000 + gradVar.val + drift.val))

PSU(recent) == Mean(recent, "predictionEntropy")

\* recent.map(s => 1.0 - s.predictionEntropy)
Confidences(recent) ==
    [i \in 1..Len(recent) |-> 1000 - recent[i].predictionEntropy]

\* Math.max(...confidences) of a list that is not empty
MaxConf(confidences) ==
    CHOOSE m \in {confidences[i] : i \in DOMAIN confidences} :
        \A i \in DOMAIN confidences : confidences[i] <= m

\* the highest confidence minus the lowest
ICCSpread(recent) ==
    IF Len(recent) = 0 THEN NaN
    ELSE LET confidences == Confidences(recent)
             lowest == CHOOSE m \in {confidences[i] : i \in DOMAIN confidences} :
                           \A i \in DOMAIN confidences : confidences[i] >= m
         IN Num(Max(0, MaxConf(confidences) - lowest))

\* Math.max(0, maxConf - currConf), in thousandths.  Of an empty window
\* maxConf is -Infinity and currConf is undefined, their difference is NaN
\* and Math.max(0, NaN) is NaN
ICC(recent) ==
    IF Len(recent) = 0 THEN NaN
    ELSE LET confidences == Confidences(recent)
             maxConf == MaxConf(confidences)
             currConf == confidences[Len(confidences)]
         IN Num(Max(0, maxConf - currConf))

\* the loop over the full history: the epoch of the first record that is
\* detected, -1 if there is none
firstDetection(signals) ==
    LET hits == {i \in DOMAIN signals :
                    \/ signals[i].gradientVariance > detectGradVar
                    \/ signals[i].activationEntropy < detectEntropy}
    IN IF hits = {} THEN -1
       ELSE signals[CHOOSE i \in hits : \A j \in hits : i <= j].epoch

\* the conditional expression of FAH; a failureEpoch of null and one of 0
\* are both falsy
FAH(signals, failureEpoch) ==
    LET truthy == ~failureEpoch.isNull /\ failureEpoch.value # 0
        fd == firstDetection(signals)
    IN IF truthy /\ fd # -1 /\ fd < failureEpoch.value
       THEN failureEpoch.value - fd
       ELSE IF truthy THEN FallbackHorizon ELSE 0

calculateMetrics(signals, failureEpoch) ==
    LET recent == Recent(signals)
    IN [ISS |-> ISS(recent), PSU |-> PSU(recent), ICC |-> ICC(recent),
        FAH |-> FAH(signals, failureEpoch)]

CalculateMetrics(signals, failureEpoch) ==
    /\ mcRet' = [op |-> "calculateMetrics", signals |-> signals,
                 failureEpoch |-> failureEpoch,
                 result |-> calculateMetrics(signals, failureEpoch)]
    /\ UNCHANGED <<feVars, emVars, imVars, ceVars, iaVars, riVars, ecVars>>

\* how many records a history may hold before its last 20
MaxOld == 2

\* a record that detects nothing, one that is detected by its gradient
\* variance, one that is detected by its activation entropy
RecordOf(kind, epoch) ==
    CASE kind = "calm" -> EpochSignal(epoch, 0, 0, 500, 1500)
      [] kind = "noisy" -> EpochSignal(epoch, 900, 300, 800, 1500)
      [] kind = "collapsed" -> EpochSignal(epoch, 200, 100, 200, 900)

\* a history of len records with epochs 1..len: the records before the last
\* 20 are of kind old, the last one of kind last, those between of kind mid
HistoryOf(len, old, mid, last) ==
    [i \in 1..len |->
        RecordOf(IF i = len THEN last
                 ELSE IF i <= len - RecentWindow THEN old ELSE mid, i)]

MCHistories ==
    { HistoryOf(len, old, mid, last) :
        len \in {0, 1, 2, RecentWindow - 1} \cup (RecentWindow .. RecentWindow + MaxOld),
        old \in {"calm", "noisy", "collapsed"}, mid \in {"calm", "noisy", "collapsed"},
        last \in {"calm", "noisy", "collapsed"} }

\* no failure epoch, epoch 0, and epochs before, among and after the records
FailureEpochs == {NoEpoch} \cup {EpochAt(n) : n \in {0, 1, 2, 5, 25}}

NextMC ==
    \E signals \in MCHistories, failureEpoch \in FailureEpochs :
        CalculateMetrics(signals, failureEpoch)

(***************************************************************************)
(* Numbers of calculateCorrelation.  The sums and products of lines 11-18  *)
(* round, and whether the denominator is exactly 0 depends on how.  Here a *)
(* number is binary floating point as an IEEE 754 double is, m * 2^e with  *)
(* a significand m of Precision bits where a double has 53, every          *)
(* operation rounded to nearest, ties to even; the exponent is unbounded.  *)
(* A number is a record [nan, m, e]: m = 0, or 2^(Precision-1) <= |m| <    *)
(* 2^Precision.                                                            *)
(***************************************************************************)

Precision == 13

Fl(m, e) == [nan |-> FALSE, m |-> m, e |-> e]

FlNaN == [nan |-> TRUE, m |-> 0, e |-> 0]

FlZero == Fl(0, 0)

Abs(n) == IF n < 0 THEN -n ELSE n

RECURSIVE BitLength(_)
\* the number of binary digits of a natural number
BitLength(a) == IF a = 0 THEN 0 ELSE 1 + BitLength(a \div 2)

\* m * 2^e rounded to Precision bits, to nearest, ties to even
FlNorm(m, e) ==
    LET sgn == IF m < 0 THEN -1 ELSE 1
        a == Abs(m)
        bl == BitLength(a)
        sh == bl - Precision
        q == a \div 2^sh
        r == a % 2^sh
        half == 2^(sh - 1)
        up == IF r > half \/ (r = half /\ q % 2 = 1) THEN q + 1 ELSE q
    IN IF m = 0 THEN FlZero
       ELSE IF bl > Precision
            THEN IF up = 2^Precision
                 THEN Fl(sgn * 2^(Precision - 1), e + sh + 1)
                 ELSE Fl(sgn * up, e + sh)
            ELSE Fl(sgn * a * 2^(Precision - bl), e - (Precision - bl))

\* a * b
FlMul(a, b) ==
    IF a.nan \/ b.nan THEN FlNaN ELSE FlNorm(a.m * b.m, a.e + b.e)

\* a + b: exact on the aligned significands, then rounded; a term more than
\* Precision + 1 binary places below the other does not change it
FlAdd(a, b) ==
    IF a.nan \/ b.nan THEN FlNaN
    ELSE IF a.m = 0 THEN b
    ELSE IF b.m = 0 THEN a
    ELSE LET hi == IF a.e >= b.e THEN a ELSE b
             lo == IF a.e >= b.e THEN b ELSE a
             d == hi.e - lo.e
         IN IF d > Precision + 1 THEN hi
            ELSE FlNorm(hi.m * 2^d + lo.m, lo.e)

\* a - b
FlSub(a, b) == FlAdd(a, IF b.nan THEN b ELSE Fl(-b.m, b.e))

\* Math.sqrt(a): NaN below 0; else the root of the significand scaled to an
\* even exponent, with a sticky bit for what the integer root leaves
FlSqrt(a) ==
    IF a.nan \/ a.m < 0 THEN FlNaN
    ELSE IF a.m = 0 THEN a
    ELSE LET t == IF (a.e - (Precision + 1)) % 2 = 0
                  THEN Precision + 1 ELSE Precision + 2
             M == a.m * 2^t
             r == Sqrt(M)
             sticky == IF r * r = M THEN 0 ELSE 1
         IN FlNorm(2 * r + sticky, (a.e - t) \div 2 - 1)

\* a / b with b not 0: the quotient of the significands to Precision + 2
\* places and a sticky bit for the remainder
FlDiv(a, b) ==
    IF a.nan \/ b.nan THEN FlNaN
    ELSE IF a.m = 0 THEN FlZero
    ELSE LET sgn == IF (a.m < 0) = (b.m < 0) THEN 1 ELSE -1
             M == Abs(a.m) * 2^(Precision + 2)
             q == M \div Abs(b.m)
             sticky == IF M % Abs(b.m) = 0 THEN 0 ELSE 1
         IN FlNorm(sgn * (2 * q + sticky), a.e - b.e - (Precision + 2) - 1)

\* the number a decimal literal n/d denotes: the nearest one
FlDec(n, d) == FlDiv(FlNorm(n, 0), FlNorm(d, 0))

\* Math.abs
FlAbs(a) == IF a.nan THEN a ELSE Fl(Abs(a.m), a.e)

\* a > b for a >= 0 and b > 0; false if a is NaN
FlGt(a, b) ==
    /\ ~a.nan
    /\ a.m # 0
    /\ a.e > b.e \/ (a.e = b.e /\ a.m > b.m)

(***************************************************************************)
(* RealIntrospection: calculateCorrelation and getRealCausalAnalysis       *)
(***************************************************************************)

noiseFloor == FlDec(5, 100)

RIInit == riRet = [op |-> "new"]

RECURSIVE FlSum(_)
\* reduce((a, b) => a + b, 0)
FlSum(s) ==
    IF Len(s) = 0 THEN FlZero
    ELSE FlAdd(FlSum(SubSeq(s, 1, Len(s) - 1)), s[Len(s)])

calculateCorrelation(x, y) ==
    LET n == Len(x)
        sumX == FlSum(x)
        sumY == FlSum(y)
        sumXY == FlSum([i \in 1..n |-> FlMul(x[i], y[i])])
        sumX2 == FlSum([i \in 1..n |-> FlMul(x[i], x[i])])
        sumY2 == FlSum([i \in 1..n |-> FlMul(y[i], y[i])])
        numerator == FlSub(FlMul(FlNorm(n, 0), sumXY), FlMul(sumX, sumY))
        denominator ==
            FlSqrt(FlMul(FlSub(FlMul(FlNorm(n, 0), sumX2), FlMul(sumX, sumX)),
                         FlSub(FlMul(FlNorm(n, 0), sumY2), FlMul(sumY, sumY))))
    IN IF n = 0 THEN FlZero
       ELSE IF ~denominator.nan /\ denominator.m = 0 THEN FlZero
       ELSE FlDiv(numerator, denominator)

InternalSignal(g, lc, pe, ld) ==
    [gradient_norm |-> g, loss_curvature |-> lc, prediction_entropy |-> pe,
     latent_drift |-> ld]

\* signals.map(s => s.<f>)
Series(signals, f) == [i \in 1..Len(signals) |-> signals[i][f]]

\* const links: the four correlations
Correlations(signals) ==
    LET grads == Series(signals, "gradient_norm")
        lossCurv == Series(signals, "loss_curvature")
        entropy == Series(signals, "prediction_entropy")
        drift == Series(signals, "latent_drift")
    IN << [source |-> "Gradient", target |-> "Loss Curv",
           val |-> calculateCorrelation(grads, lossCurv)],
          [source |-> "Gradient", target |-> "Entropy",
           val |-> calculateCorrelation(grads, entropy)],
          [source |-> "Loss Curv", target |-> "Drift",
           val |-> calculateCorrelation(lossCurv, drift)],
          [source |-> "Entropy", target |-> "Drift",
           val |-> calculateCorrelation(entropy, drift)] >>

\* links.map(...).filter(e => e.strength > 0.05)
GraphLinks(ls) ==
    SelectSeq([i \in 1..Len(ls) |->
                  [source |-> ls[i].source, target |-> ls[i].target,
                   strength |-> FlAbs(ls[i].val),
                   type |-> IF ~ls[i].val.nan /\ ls[i].val.m > 0
                            THEN "positive" ELSE "negative"]],
              LAMBDA e : FlGt(e.strength, noiseFloor))

GraphNodes ==
    << [id |-> "Gradient", label |-> "Gradient Norm", type |-> "source"],
       [id |-> "Loss Curv", label |-> "Loss Curvature", type |-> "internal"],
       [id |-> "Entropy", label |-> "Pred Entropy", type |-> "internal"],
       [id |-> "Drift", label |-> "Latent Drift", type |-> "target"] >>

\* the graph returned, given the four correlations; the early return names
\* its empty list of links "edges"
GraphOf(signals, ls) ==
    IF Len(signals) < 2 THEN [nodes |-> << >>, edges |-> << >>]
    ELSE [nodes |-> GraphNodes, links |-> GraphLinks(ls)]

getRealCausalAnalysis(signals) == GraphOf(signals, Correlations(signals))

\* a call; the four correlations it computed are kept with its result
GetRealCausalAnalysis(signals) ==
    /\ LET ls == IF Len(signals) < 2 THEN << >> ELSE Correlations(signals)
       IN riRet' = [op |-> "getRealCausalAnalysis", signals |-> signals,
                    correlations |-> ls, result |-> GraphOf(signals, ls)]
    /\ UNCHANGED <<feVars, emVars, imVars, ceVars, iaVars, mcVars, ecVars>>

\* how many signals a history holds that is longer than one signal
MaxSignals == 3

\* how a field runs over a history, in tenths: constant at 0.3, constant at
\* 0.7, rising by 0.1 from 0.1
TenthsAt(kind, i) ==
    CASE kind = "low" -> 3
      [] kind = "high" -> 7
      [] kind = "rising" -> i

RISignals ==
    { [i \in 1..n |->
          InternalSignal(FlDec(TenthsAt(g, i), 10), FlDec(TenthsAt(lc, i), 10),
                         FlDec(TenthsAt(pe, i), 10), FlDec(TenthsAt(ld, i), 10))] :
        n \in {0, 1, MaxSignals}, g \in {"low", "high", "rising"},
        lc \in {"low", "high", "rising"}, pe \in {"low", "high", "rising"},
        ld \in {"low", "high", "rising"} }

NextRI == \E signals \in RISignals : GetRealCausalAnalysis(signals)

(***************************************************************************)
(* ExperimentControl                                                       *)
(***************************************************************************)

\* the state of the component when it has mounted: the useState and useRef
\* initial values, and restoreState called by the mount effect
ECInit ==
    /\ isRunning = FALSE
    /\ pollingIntervalRef = 0
    /\ timers = {}
    /\ timerCount = 0
    /\ starts = << >>
    /\ restorePc = "getExperiments"
    /\ polls = 0
    /\ pollCount = 0

\* bounds of the specification of ExperimentControl
MaxStarts == 2
MaxPolls == 2

otherVars == <<feVars, emVars, imVars, ceVars, iaVars, mcVars, riVars>>

\* "if (pollingIntervalRef.current) { clearInterval(pollingIntervalRef.current);
\* pollingIntervalRef.current = null; }"
ClearPolling ==
    /\ timers' = timers \ {pollingIntervalRef}
    /\ pollingIntervalRef' = 0
    /\ UNCHANGED timerCount

\* startPolling(expId, totalEpochs): clears the interval the ref holds and
\* sets a new one, whatever isRunning is
startPolling ==
    /\ timerCount' = timerCount + 1
    /\ timers' = (timers \ {pollingIntervalRef}) \cup {timerCount'}
    /\ pollingIntervalRef' = timerCount'

\* restoreState, up to its first await: api.getExperiments() fails or returns
\* no experiment
RestoreNothing ==
    /\ restorePc = "getExperiments"
    /\ restorePc' = "done"
    /\ UNCHANGED <<isRunning, pollingIntervalRef, timers, timerCount, starts, polls,
                   pollCount>>
    /\ UNCHANGED otherVars

\* restoreState: the latest experiment is still running
RestoreRunning ==
    /\ restorePc = "getExperiments"
    /\ restorePc' = "done"
    /\ isRunning' = TRUE
    /\ startPolling
    /\ UNCHANGED <<starts, polls, pollCount>>
    /\ UNCHANGED otherVars

\* restoreState: the latest experiment has finished, its signals are fetched
RestoreFinished ==
    /\ restorePc = "getExperiments"
    /\ restorePc' = "getSignals"
    /\ UNCHANGED <<isRunning, pollingIntervalRef, timers, timerCount, starts, polls,
                   pollCount>>
    /\ UNCHANGED otherVars

\* restoreState: api.getSignals returns or fails
RestoreSignals ==
    /\ restorePc = "getSignals"
    /\ restorePc' = "done"
    /\ UNCHANGED <<isRunning, pollingIntervalRef, timers, timerCount, starts, polls,
                   pollCount>>
    /\ UNCHANGED otherVars

\* handleStartExperiment, up to "await api.createExperiment(...)"; the
\* button calls it while isRunning is false
HandleStartExperiment ==
    /\ ~isRunning
    /\ Len(starts) < MaxStarts
    /\ isRunning' = TRUE
    /\ starts' = Append(starts, "createExperiment")
    /\ UNCHANGED <<pollingIntervalRef, timers, timerCount, restorePc, polls, pollCount>>
    /\ UNCHANGED otherVars

\* handleStartExperiment: api.createExperiment resolves, api.startTraining
\* is awaited
CreateExperimentResolves(i) ==
    /\ starts[i] = "createExperiment"
    /\ starts' = [starts EXCEPT ![i] = "startTraining"]
    /\ UNCHANGED <<isRunning, pollingIntervalRef, timers, timerCount, restorePc, polls,
                   pollCount>>
    /\ UNCHANGED otherVars

\* handleStartExperiment: api.startTraining resolves, startPolling is called
StartTrainingResolves(i) ==
    /\ starts[i] = "startTraining"
    /\ starts' = [starts EXCEPT ![i] = "done"]
    /\ startPolling
    /\ UNCHANGED <<isRunning, restorePc, polls, pollCount>>
    /\ UNCHANGED otherVars

\* handleStartExperiment: one of the two awaited calls rejects, the catch runs
StartRejects(i) ==
    /\ starts[i] \in {"createExperiment", "startTraining"}
    /\ starts' = [starts EXCEPT ![i] = "done"]
    /\ isRunning' = FALSE
    /\ ClearPolling
    /\ UNCHANGED <<restorePc, polls, pollCount>>
    /\ UNCHANGED otherVars

\* handleStopExperiment()
handleStopExperiment ==
    /\ isRunning' = FALSE
    /\ ClearPolling
    /\ UNCHANGED <<starts, restorePc, polls, pollCount>>
    /\ UNCHANGED otherVars

\* the button calls handleStopExperiment while isRunning is true
HandleStopExperiment == isRunning /\ handleStopExperiment

\* handleResetConfig(): "if (isRunning) handleStopExperiment()", then the
\* configuration is reset
HandleResetConfig ==
    IF isRunning THEN handleStopExperiment
    ELSE UNCHANGED vars

\* the interval fires: its callback calls api.getSignals and waits
Tick ==
    /\ timers # {}
    /\ pollCount < MaxPolls
    /\ polls' = polls + 1
    /\ pollCount' = pollCount + 1
    /\ UNCHANGED <<isRunning, pollingIntervalRef, timers, timerCount, starts, restorePc>>
    /\ UNCHANGED otherVars

\* an interval callback resumes: api.getSignals failed, or returned no signal
\* or a latest epoch below totalEpochs
PollReturns ==
    /\ polls > 0
    /\ polls' = polls - 1
    /\ UNCHANGED <<isRunning, pollingIntervalRef, timers, timerCount, starts, restorePc,
                   pollCount>>
    /\ UNCHANGED otherVars

\* an interval callback resumes with latestEpoch >= totalEpochs
PollFinished ==
    /\ polls > 0
    /\ polls' = polls - 1
    /\ isRunning' = FALSE
    /\ ClearPolling
    /\ UNCHANGED <<starts, restorePc, pollCount>>
    /\ UNCHANGED otherVars

NextEC ==
    \/ RestoreNothing
    \/ RestoreRunning
    \/ RestoreFinished
    \/ RestoreSignals
    \/ HandleStartExperiment
    \/ \E i \in DOMAIN starts : CreateExperimentResolves(i)
    \/ \E i \in DOMAIN starts : StartTrainingResolves(i)
    \/ \E i \in DOMAIN starts : StartRejects(i)
    \/ HandleStopExperiment
    \/ HandleResetConfig
    \/ Tick
    \/ PollReturns
    \/ PollFinished

Init ==
    FEInit /\ EMInit /\ IMInit /\ CEInit /\ IAInit /\ MCInit /\ RIInit /\ ECInit

\* FailureEngine under arbitrary epochs
Spec == Init /\ [][NextFE]_vars

\* FailureEngine through and past the warm-up of its baselines
SpecWarmup == Init /\ [][NextWarmup]_vars

\* FailureEngine with accuracies at and around the degradation threshold
SpecBoundary == Init /\ [][NextBoundary]_vars

\* EpisodeMemory with a few episodes of different snapshots and ages
SpecMemory == Init /\ [][NextMemory]_vars

\* EpisodeMemory filled past its capacity
SpecEviction == Init /\ [][NextEviction]_vars

\* IntrospectionModel: ablations, mode and risk scoring
SpecIM == Init /\ [][NextIM]_vars

\* CausalEngine on signals at and beyond every rule's threshold
SpecCE == Init /\ [][NextCE]_vars

\* CausalEngine where every input is passed in sooner or later
SpecCEFair ==
    SpecCE /\ \A signals \in CESignals, isFailing \in BOOLEAN :
                 WF_vars(DiscoverCausalStructure(signals, isFailing))

\* InterventionAdvisor on small graphs in every node order
SpecIA == Init /\ [][NextIA]_vars

\* MetricsCalculator on histories up to and beyond the window of 20
SpecMC == Init /\ [][NextMC]_vars

\* getRealCausalAnalysis on short histories of constant and varying series
SpecRI == Init /\ [][NextRI]_vars

\* ExperimentControl: the clicks, the awaited calls and the interval
\* callbacks, in every order
SpecEC == Init /\ [][NextEC]_vars

(***************************************************************************)
(* Claims about FailureEngine                                              *)
(***************************************************************************)

RuleTypes == {"ACCURACY_DEGRADATION", "LOSS_DIVERGENCE", "CONFIDENCE_COLLAPSE"}

Window == SliceLast(history, windowSize)

Checked == feRet.op = "checkFailure"

\* C1: while fewer than windowSize updates have been made, checkFailure
\* returns isFailure = false, failureType = null, failureDuration = 0,
\* whatever the updates were.
C1_BelowWindowNoFailure ==
    (Checked /\ Len(history) < windowSize) =>
        /\ feRet.isFailure = FALSE
        /\ feRet.failureType = "null"
        /\ feRet.failureDuration = 0

\* a short history whose entries would fire a rule, and checkFailure was called
C1_Witness ==
    /\ Checked
    /\ Len(history) \in 1..(windowSize - 1)
    /\ Rules(history, baselineAccuracy, baselineLoss).isFailure

\* C2: the rules are tried in the order accuracy, loss, confidence and the
\* first match wins: accuracy condition => ACCURACY_DEGRADATION; LOSS_DIVERGENCE
\* only without the accuracy condition; CONFIDENCE_COLLAPSE only without both.
C2_RulePriority ==
    (Checked /\ Len(history) >= windowSize) =>
        LET A == AccuracyRule(Window, baselineAccuracy)
            L == LossRule(Window, baselineLoss)
            C == ConfidenceRule(Window)
        IN /\ A => feRet.failureType = "ACCURACY_DEGRADATION"
           /\ feRet.failureType = "LOSS_DIVERGENCE" <=> (~A /\ L)
           /\ feRet.failureType = "CONFIDENCE_COLLAPSE" <=> (~A /\ ~L /\ C)
           /\ feRet.isFailure <=> (A \/ L \/ C)

\* all three conditions hold at once and the result is ACCURACY_DEGRADATION
C2_Witness ==
    /\ Checked
    /\ Len(history) >= windowSize
    /\ AccuracyRule(Window, baselineAccuracy)
    /\ LossRule(Window, baselineLoss)
    /\ ConfidenceRule(Window)
    /\ feRet.failureType = "ACCURACY_DEGRADATION"

\* the entries update lets the baselines see: those appended while the
\* history was shorter than WarmupLen
WarmupPart == SubSeq(history, 1, Min(Len(history), WarmupLen - 1))

MinOf(S) == CHOOSE x \in S : \A y \in S : x <= y
MaxOf(S) == CHOOSE x \in S : \A y \in S : x >= y

C4_RunningMinMax ==
    Len(history) >= 1 =>
        /\ baselineLoss = MinOf({WarmupPart[i].loss : i \in DOMAIN WarmupPart})
        /\ baselineAccuracy = MaxOf({WarmupPart[i].accuracy : i \in DOMAIN WarmupPart})

\* C4, its last part: baselineLoss never increases from one update to the next.
C4_LossNeverIncreases ==
    [][Len(history) >= 1 => baselineLoss' <= baselineLoss]_vars

Dur(type) == calculateDuration(type, history, baselineAccuracy, baselineLoss)

\* the entries at the end of the history that all satisfy the predicate of type
TrailingRun(type) ==
    LET n == Len(history)
        ok(i) == Match(type, history[i], baselineAccuracy, baselineLoss)
    IN CHOOSE k \in 0..n :
          /\ \A i \in (n - k + 1)..n : ok(i)
          /\ k < n => ~ok(n - k)

\* C5: for each rule type, calculateDuration is the number of consecutive newest
\* entries that satisfy the rule's single-entry predicate; an update whose entry
\* satisfies it never lowers the duration, an update whose entry does not
\* leaves the duration 0.
C5_Duration ==
    [][\A type \in RuleTypes :
         /\ Dur(type)' = TrailingRun(type)'
         /\ history' # history =>
              IF Match(type, history'[Len(history')], baselineAccuracy', baselineLoss')
              THEN Dur(type)' >= Dur(type) /\ Dur(type)' >= 1
              ELSE Dur(type)' = 0]_vars

\* one rule has matched the three newest entries, a second rule matched the
\* entry before the newest but not the newest one: its duration is back to 0
C5_Witness ==
    /\ Len(history) >= 4
    /\ Dur("LOSS_DIVERGENCE") >= 3
    /\ Dur("CONFIDENCE_COLLAPSE") = 0
    /\ Match("CONFIDENCE_COLLAPSE", history[Len(history) - 1], baselineAccuracy,
             baselineLoss)

\* C6: the accuracy rule compares strictly: a drop of baselineAccuracy below the
\* window mean that is smaller than or equal to accDegradationThresh does not
\* fire it; accuracies [0.9, 0.9, 0.88, 0.7, 0.65] with baseline 0.9 (drop
\* 0.094) and no other rule matching give isFailure = false.
C6_StrictAccuracyRule ==
    (Checked /\ Len(history) >= windowSize) =>
        LET sum == SumField(Window, "accuracy")
            n == Len(Window)
        IN /\ baselineAccuracy * n - sum <= accDegradationThresh * n
                => feRet.failureType # "ACCURACY_DEGRADATION"
           /\ ( /\ [i \in 1..n |-> Window[i].accuracy] = <<900, 900, 880, 700, 650>>
                /\ baselineAccuracy = 900
                /\ ~LossRule(Window, baselineLoss)
                /\ ~ConfidenceRule(Window) )
                => (baselineAccuracy * n - sum = 94 * n /\ feRet.isFailure = FALSE)

\* the scenario of the claim, checked
C6_Witness ==
    /\ Checked
    /\ Len(history) = windowSize
    /\ [i \in 1..windowSize |-> history[i].accuracy] = <<900, 900, 880, 700, 650>>
    /\ baselineAccuracy = 900
    /\ feRet.isFailure = FALSE

\* C7: update appends exactly one entry and leaves the earlier entries and their
\* order alone; checkFailure leaves history and both baselines unchanged; two
\* checkFailure calls with no update between them return the same result.
C7_HistoryAppendOnly ==
    [][/\ history' # history =>
            /\ Len(history') = Len(history) + 1
            /\ SubSeq(history', 1, Len(history)) = history
       /\ feRet'.op = "checkFailure" =>
            UNCHANGED <<history, baselineAccuracy, baselineLoss>>
       /\ (feRet.op = "checkFailure" /\ feRet'.op = "checkFailure") =>
            feRet' = feRet]_vars

\* a failure was reported on a history longer than the window
C7_Witness ==
    /\ Checked
    /\ Len(history) > windowSize
    /\ feRet.isFailure

(***************************************************************************)
(* Claims about EpisodeMemory                                              *)
(***************************************************************************)

\* C8: the memory holds at most 100 episodes and evicts oldest-first: it always
\* holds exactly the most recently inserted episodes (the two seeds being the
\* oldest insertions), in insertion order; the insertion that would make the
\* size 101 removes exactly the oldest.
C8_BoundedFifo ==
    LET n == Len(inserted)
        kept == Min(n, 100)
    IN /\ Len(episodes) <= 100
       /\ Len(episodes) = kept
       /\ \A i \in 1..kept : episodes[i] = inserted[n - kept + i]

\* the 101st insertion has just evicted mem-001, and nothing else
C8_Witness ==
    /\ Len(inserted) = 101
    /\ Len(episodes) = 100
    /\ episodes[1].id = "mem-002"
    /\ episodes[100].id = 99

\* the similarity findSimilar gave, or would have given, episode e in the last call
SimilarityAtCall(e) == Similarity(e, emRet.arg, now)

Returned == {emRet.results[i].episode : i \in 1..Len(emRet.results)}

\* C9: findSimilar returns at most 3 results, ordered by similarity
\* non-increasing, each a stored episode with its similarity, and no stored
\* episode that was not returned is more similar than the last result.
C9_TopThree ==
    emRet.op = "findSimilar" =>
        LET r == emRet.results IN
        /\ Len(r) <= 3
        /\ \A i \in 1..(Len(r) - 1) : r[i].similarity >= r[i + 1].similarity
        /\ \A i \in 1..Len(r) :
              /\ \E j \in 1..Len(episodes) : r[i].episode = episodes[j]
              /\ r[i].similarity = SimilarityAtCall(r[i].episode)
        /\ \A i, j \in 1..Len(r) : i # j => r[i].episode # r[j].episode
        /\ \A j \in 1..Len(episodes) :
              episodes[j] \notin Returned =>
                  /\ Len(r) = 3
                  /\ SimilarityAtCall(episodes[j]) <= r[Len(r)].similarity

\* five episodes are stored, two were left out, one of them strictly less
\* similar than the last result, and the best match is not the first stored
C9_Witness ==
    /\ emRet.op = "findSimilar"
    /\ Len(episodes) = 5
    /\ Len(emRet.results) = 3
    /\ emRet.results[1].episode # episodes[1]
    /\ emRet.results[1].similarity > emRet.results[3].similarity
    /\ \E j \in 1..5 :
          /\ episodes[j] \notin Returned
          /\ SimilarityAtCall(episodes[j]) < emRet.results[3].similarity

(***************************************************************************)
(* Claims about IntrospectionModel                                         *)
(***************************************************************************)

\* C10: after setAblations with all four of gradient, activation, entropy and
\* latent, the raw penalty sum is 0 for every input signal, the score is the
\* same constant sigmoid(4 * (0 - 0.3)), about 0.2315, and the level is Low.
C10_AllAblatedConstant ==
    Families \subseteq ablations =>
        /\ \A s \in Signals :
              /\ RiskScore(s, weights) = 0
              /\ predictFailureRisk(s, weights).score \in 2310..2320
              /\ predictFailureRisk(s, weights).level = "Low"
        /\ \A s, t \in Signals :
              predictFailureRisk(s, weights).score = predictFailureRisk(t, weights).score
        /\ imRet.op = "predictFailureRisk" =>
              imRet.result.score \in 2310..2320 /\ imRet.result.level = "Low"

\* a signal that is Critical with no ablation was scored Low under all four
C10_Witness ==
    /\ Families \subseteq ablations
    /\ imRet.op = "predictFailureRisk"
    /\ imRet.arg = Signal(3000, 0, 2500, 0)
    /\ predictFailureRisk(imRet.arg, WeightsOf({})).level = "Critical"
    /\ imRet.result.level = "Low"

\* The scenario of the risk model: gradientNorm 1.3, activationEntropy 0.9,
\* latentDrift 0.5, confidenceDispersion 0.05
Scenario == Signal(1300, 900, 500, 50)

\* The penalty of one signal family, in thousandths, before its gate
Penalty(f, s) ==
    CASE f = "gradient" -> (Max(0, s.gradientNorm - 800) * 5) \div 10
      [] f = "activation" -> (Max(0, 1000 - s.activationEntropy) * 4) \div 10
      [] f = "latent" -> (Max(0, s.latentDrift - 1000) * 8) \div 10
      [] f = "entropy" -> (Max(0, 200 - s.confidenceDispersion) * 5) \div 10

\* The sum of the penalties of the families that are not ablated
RawRisk(s, abl) ==
    LET on(f) == IF f \in abl THEN 0 ELSE Penalty(f, s)
    IN on("gradient") + on("activation") + on("latent") + on("entropy")

\* C11: predictFailureRisk returns the level of the band its score falls in
\* (above 0.8 Critical, above 0.6 up to 0.8 Elevated, above 0.3 up to 0.6
\* Emerging, up to 0.3 Low), the score is the sigmoid of the sum of the four
\* gated penalties, none of them negative, and with no ablation the scenario
\* has the penalties 0.25, 0.04, 0 and 0.075, the sum 0.365 and the level
\* "Emerging".
C11_LevelBands ==
    imRet.op = "predictFailureRisk" =>
        LET r == imRet.result
            s == imRet.arg
        IN /\ \A f \in Families : Penalty(f, s) >= 0
           /\ r.score = Probability(RawRisk(s, ablations))
           /\ r.level = "Critical" <=> r.score > 8000
           /\ r.level = "Elevated" <=> (r.score > 6000 /\ r.score <= 8000)
           /\ r.level = "Emerging" <=> (r.score > 3000 /\ r.score <= 6000)
           /\ r.level = "Low" <=> r.score <= 3000
           /\ (s = Scenario /\ ablations = {}) =>
                /\ Penalty("gradient", s) = 250
                /\ Penalty("activation", s) = 40
                /\ Penalty("latent", s) = 0
                /\ Penalty("entropy", s) = 75
                /\ RawRisk(s, ablations) = 365
                /\ r.level = "Emerging"

\* The scenario was scored with no ablation and came out "Emerging"
C11_Witness ==
    /\ imRet.op = "predictFailureRisk"
    /\ imRet.arg = Scenario
    /\ ablations = {}
    /\ imRet.result.level = "Emerging"

\* C12: for every confidenceDispersion >= 0, zero included, the uncertainty is
\* min(0.2, confidenceDispersion * 0.5), confidenceLower is
\* max(0, score - uncertainty), confidenceUpper is min(1, score + uncertainty),
\* and 0 <= confidenceLower <= score <= confidenceUpper <= 1.
C12_UncertaintyBand ==
    imRet.op = "predictFailureRisk" =>
        LET r == imRet.result
            uncertainty == Min(2000, imRet.arg.confidenceDispersion * 5)
        IN /\ r.confidenceLower = Max(0, r.score - uncertainty)
           /\ r.confidenceUpper = Min(10000, r.score + uncertainty)
           /\ 0 <= r.confidenceLower
           /\ r.confidenceLower <= r.score
           /\ r.score <= r.confidenceUpper
           /\ r.confidenceUpper <= 10000

\* C13: every weight is 0 or 1, a call of setAblations leaves a family's
\* weight 0 exactly when its name is in the list of that call, whatever was
\* ablated before, and no other call changes the weights, so the weights are
\* those of the last list alone.
C13_LastListDecides ==
    [][ /\ \A f \in Families : weights'[f] \in {0, 1}
        /\ imRet'.op = "setAblations" =>
               \A f \in Families : weights'[f] = 0 <=> f \in imRet'.arg
        /\ imRet'.op # "setAblations" => weights' = weights ]_vars

\* setAblations was called with a list that leaves out a family that was
\* ablated before, and the family has weight 1 again
C13_Witness ==
    /\ imRet.op = "setAblations"
    /\ "gradient" \in imRet.replaced
    /\ "gradient" \notin imRet.arg
    /\ "latent" \in imRet.arg
    /\ weights.gradient = 1
    /\ weights.latent = 0

\* C14: setMode leaves the ablations and the weights as they are, every
\* result of predictFailureRisk is the one an instance with the same
\* ablations gives whatever its mode, and getModelHealth returns the string
\* of the mode.
C14_ModeOnlyNamesHealth ==
    [][ /\ imRet'.op = "setMode" => UNCHANGED <<ablations, weights>>
        /\ imRet'.op = "predictFailureRisk" =>
               imRet'.result
                   = predictFailureRisk(imRet'.arg, WeightsOf(ablations'))
        /\ imRet'.op = "getModelHealth" =>
               imRet'.result = IF noGroundTruthMode'
                               THEN "UNSUPERVISED_MONITORING"
                               ELSE "SUPERVISED_VALIDATION" ]_vars

\* In the mode without ground truth, with a family ablated, a signal was
\* scored above "Low"
C14_Witness ==
    /\ noGroundTruthMode
    /\ "gradient" \in ablations
    /\ imRet.op = "predictFailureRisk"
    /\ imRet.result.level # "Low"
    /\ imRet.result = predictFailureRisk(imRet.arg, WeightsOf(ablations))

\* The edges of a list of links, with what they carry
EdgeSet(ls) == {ls[i] : i \in DOMAIN ls}

\* The edges of the rules that hold for an input
RuleEdges(s, isFailing) ==
    (IF s.lossCurvature > 1000
     THEN {Link("loss_curve", "grad_var", 800, 0, 950),
           Link("grad_var", "dead_neurons", 600, 2, 850)}
     ELSE {})
    \cup (IF s.deadNeuronRatio > 100
          THEN {Link("dead_neurons", "act_entropy", -900, 1, 920)} ELSE {})
    \cup (IF s.activationEntropy < 1000 \/ isFailing
          THEN {Link("act_entropy", "failure_risk", -850, 0, 900)} ELSE {})
    \cup (IF s.latentDrift > 400
          THEN {Link("latent_drift", "failure_risk", 750, 5, 700),
                Link("latent_drift", "act_entropy", -500, 1, 600)}
          ELSE {})

\* The two default edges
DefaultEdges ==
    {Link("loss_curve", "grad_var", 200, 0, 400),
     Link("grad_var", "act_entropy", 100, 1, 300)}

\* No rule holds for the input
NoRuleFired(s, isFailing) ==
    /\ s.lossCurvature <= 1000
    /\ s.deadNeuronRatio <= 100
    /\ s.activationEntropy >= 1000 /\ ~isFailing
    /\ s.latentDrift <= 400

\* C15: discoverCausalStructure emits, each once, exactly the edges of the
\* rules whose condition holds, every rule on its own, and the two default
\* edges exactly when no rule fired and isFailing is false; a default edge is
\* never emitted together with a rule edge.
C15_ExactRuleUnion ==
    ceRet.op = "discoverCausalStructure" =>
        LET ls == ceRet.result.links
            s == ceRet.arg
            f == ceRet.isFailing
        IN /\ Len(ls) = Cardinality(EdgeSet(ls))
           /\ EdgeSet(ls) \ DefaultEdges = RuleEdges(s, f)
           /\ DefaultEdges \subseteq EdgeSet(ls) <=> (NoRuleFired(s, f) /\ ~f)
           /\ EdgeSet(ls) \cap DefaultEdges # {} =>
                  EdgeSet(ls) = DefaultEdges

\* A call in which the first and the last rule fired and the second did not
C15_Witness ==
    /\ ceRet.op = "discoverCausalStructure"
    /\ ceRet.arg.lossCurvature > 1000
    /\ ceRet.arg.deadNeuronRatio <= 100
    /\ ceRet.arg.latentDrift > 400
    /\ ceRet.arg.activationEntropy >= 1000
    /\ ~ceRet.isFailing
    /\ Len(ceRet.result.links) = 4

\* The ids of the seven nodes
NodeIds ==
    {"grad_var", "loss_curve", "dead_neurons", "act_entropy", "latent_drift",
     "conf_disp", "failure_risk"}

RECURSIVE PathWithin(_, _, _, _)
\* There is a path of one to k links of ls from a to b
PathWithin(ls, a, b, k) ==
    \E i \in DOMAIN ls :
        /\ ls[i].source = a
        /\ \/ ls[i].target = b
           \/ k > 1 /\ PathWithin(ls, ls[i].target, b, k - 1)

\* There is a path of links of ls from a to b; a shortest one visits no node
\* twice, so it has at most seven links
Path(ls, a, b) == PathWithin(ls, a, b, Cardinality(NodeIds))

\* The links hold a directed cycle
HasCycle(ls) == \E n \in NodeIds : Path(ls, n, n)

\* The order in which every link of the engine goes forward
TopoRank(id) ==
    CASE id = "loss_curve" -> 1
      [] id = "grad_var" -> 2
      [] id = "dead_neurons" -> 3
      [] id = "latent_drift" -> 4
      [] id = "conf_disp" -> 5
      [] id = "act_entropy" -> 6
      [] id = "failure_risk" -> 7

Actions(is) == [i \in DOMAIN is |-> is[i].action]

\* The graph holds a root node of one of the two known ids above 0.6
KnownRootCause(g) ==
    \E i \in DOMAIN g.nodes :
        /\ g.nodes[i].type = "root"
        /\ g.nodes[i].value > 600
        /\ g.nodes[i].id \in {"grad_var", "loss_curve"}

\* C18: advise returns the empty list whenever riskScore < 0.3, whatever the
\* graph holds, and a list that is not empty at riskScore exactly 0.3 when a
\* root node grad_var or loss_curve has a value above 0.6.
C18_RiskGate ==
    iaRet.op = "advise" =>
        /\ iaRet.riskScore < 300 => iaRet.result = << >>
        /\ (iaRet.riskScore = 300 /\ KnownRootCause(iaRet.causalGraph)) =>
               Len(iaRet.result) > 0

\* advise was called at exactly 0.3 with a root cause and returned something
C18_Witness ==
    /\ iaRet.op = "advise"
    /\ iaRet.riskScore = 300
    /\ KnownRootCause(iaRet.causalGraph)
    /\ Len(iaRet.result) > 0

\* advise was called below 0.3 with both root causes and returned nothing
C18_WitnessBelow ==
    /\ iaRet.op = "advise"
    /\ iaRet.riskScore = 299
    /\ \E i, j \in DOMAIN iaRet.causalGraph.nodes :
          /\ iaRet.causalGraph.nodes[i] = Node("grad_var", "Gradient Variance", 900, "root")
          /\ iaRet.causalGraph.nodes[j] = Node("loss_curve", "Loss Curvature", 900, "root")
    /\ iaRet.result = << >>

\* C19: for riskScore >= 0.3 the result holds 'Early Stop & Rollback' exactly
\* when the graph has no root node grad_var or loss_curve above 0.6 and
\* riskScore > 0.7, and then it holds nothing else; with no such root node and
\* 0.3 <= riskScore <= 0.7 the result is empty.
C19_FallbackOnly ==
    (iaRet.op = "advise" /\ iaRet.riskScore >= 300) =>
        LET fallback == \E i \in DOMAIN iaRet.result :
                            iaRet.result[i].action = "Early Stop & Rollback"
            noRoot == ~KnownRootCause(iaRet.causalGraph)
        IN /\ fallback <=> (noRoot /\ iaRet.riskScore > 700)
           /\ fallback => Actions(iaRet.result) = << "Early Stop & Rollback" >>
           /\ (noRoot /\ iaRet.riskScore <= 700) => iaRet.result = << >>

\* advise was called above 0.7 on a graph whose only root above 0.6 has
\* another id and returned the fallback alone
C19_Witness ==
    /\ iaRet.op = "advise"
    /\ iaRet.riskScore > 700
    /\ ~KnownRootCause(iaRet.causalGraph)
    /\ \E i \in DOMAIN iaRet.causalGraph.nodes :
          iaRet.causalGraph.nodes[i] = Node("latent_drift", "Latent Drift", 900, "root")
    /\ Len(iaRet.result) = 1
    /\ iaRet.result[1].id = "int-99"

\* The graph holds this id as a root node above 0.6
RootAbove(g, id) ==
    \E i \in DOMAIN g.nodes :
        g.nodes[i].id = id /\ g.nodes[i].type = "root" /\ g.nodes[i].value > 600

\* C20: the result of advise is in an order of expectedGain that never goes
\* up, and when grad_var and loss_curve are both root nodes above 0.6 and
\* riskScore >= 0.3 it is Enable Gradient Clipping (0.5), Reduce Learning Rate
\* (0.5x) (0.4), Increase Batch Size (2x) (0.3), in whatever order the graph
\* holds its nodes.
C20_SortedByGain ==
    iaRet.op = "advise" =>
        LET res == iaRet.result
        IN /\ \A i, j \in DOMAIN res :
                 i < j => res[i].expectedGain >= res[j].expectedGain
           /\ (/\ iaRet.riskScore >= 300
               /\ RootAbove(iaRet.causalGraph, "grad_var")
               /\ RootAbove(iaRet.causalGraph, "loss_curve")) =>
                  /\ Actions(res) = << "Enable Gradient Clipping",
                                       "Reduce Learning Rate (0.5x)",
                                       "Increase Batch Size (2x)" >>
                  /\ [i \in DOMAIN res |-> res[i].expectedGain]
                       = << 500, 400, 300 >>

\* advise was called on a graph that holds grad_var before loss_curve, both
\* root causes, and returned the three interventions
C20_Witness ==
    /\ iaRet.op = "advise"
    /\ iaRet.causalGraph.nodes[1].id = "grad_var"
    /\ RootAbove(iaRet.causalGraph, "grad_var")
    /\ RootAbove(iaRet.causalGraph, "loss_curve")
    /\ Len(iaRet.result) = 3
    /\ iaRet.result[1].id = "int-03"

\* The metrics of the last call
Metrics == mcRet.result

\* C21, as stated: with a failureEpoch supplied, 0 included, FAH is
\* failureEpoch - firstDetection if a record is detected before failureEpoch
\* and 15 otherwise; with failureEpoch null FAH is 0; FAH is never negative.
C21_HorizonCases ==
    mcRet.op = "calculateMetrics" =>
        LET fe == mcRet.failureEpoch
            detected == {i \in DOMAIN mcRet.signals :
                            \/ mcRet.signals[i].gradientVariance > 800
                            \/ mcRet.signals[i].activationEntropy < 1000}
            first == CHOOSE i \in detected : \A j \in detected : i <= j
        IN /\ Metrics.FAH >= 0
           /\ fe.isNull => Metrics.FAH = 0
           /\ (~fe.isNull /\ detected # {}
                 /\ mcRet.signals[first].epoch < fe.value) =>
                  Metrics.FAH = fe.value - mcRet.signals[first].epoch
           /\ (~fe.isNull /\ (detected = {}
                 \/ mcRet.signals[first].epoch >= fe.value)) =>
                  Metrics.FAH = 15

\* Two histories end in the same 20 records (or are the same shorter history)
SameRecent(h1, h2) == SliceLast(h1, 20) = SliceLast(h2, 20)

\* C22: two histories whose last 20 records are equal give equal ISS, PSU and
\* ICC whatever their earlier records are, and when the last 20 records all
\* have gradientVariance 0 and latentDrift 0, ISS is exactly 1.
C22_RecentOnly ==
    mcRet.op = "calculateMetrics" =>
        /\ \A other \in MCHistories :
              SameRecent(other, mcRet.signals) =>
                  LET m == calculateMetrics(other, mcRet.failureEpoch)
                  IN /\ m.ISS = Metrics.ISS
                     /\ m.PSU = Metrics.PSU
                     /\ m.ICC = Metrics.ICC
        /\ (/\ Len(mcRet.signals) > 0
            /\ \A i \in DOMAIN mcRet.signals :
                  i > Len(mcRet.signals) - 20 =>
                      /\ mcRet.signals[i].gradientVariance = 0
                      /\ mcRet.signals[i].latentDrift = 0) =>
               Metrics.ISS = Num(10000)

\* A history of more than 20 records whose old records are noisy and whose
\* last 20 are calm was measured: ISS is 1, and the history with calm old
\* records and the same last 20 has another FAH
C22_Witness ==
    /\ mcRet.op = "calculateMetrics"
    /\ mcRet.signals = HistoryOf(22, "noisy", "calm", "calm")
    /\ mcRet.failureEpoch = EpochAt(25)
    /\ Metrics.ISS = Num(10000)
    /\ SameRecent(HistoryOf(22, "calm", "calm", "calm"), mcRet.signals)
    /\ calculateMetrics(HistoryOf(22, "calm", "calm", "calm"),
                        mcRet.failureEpoch).FAH # Metrics.FAH

C24_EmptyHistoryFinite ==
    (mcRet.op = "calculateMetrics" /\ mcRet.signals = << >>) =>
        /\ ~Metrics.ISS.nan
        /\ ~Metrics.PSU.nan
        /\ ~Metrics.ICC.nan
        /\ Metrics.FAH \in Nat

\* The series of a field of the last analysed history is constant
ConstantSeries(f) ==
    \A i, j \in DOMAIN riRet.signals : riRet.signals[i][f] = riRet.signals[j][f]

\* The field behind a node of the correlation graph
FieldOf(id) ==
    CASE id = "Gradient" -> "gradient_norm"
      [] id = "Loss Curv" -> "loss_curvature"
      [] id = "Entropy" -> "prediction_entropy"
      [] id = "Drift" -> "latent_drift"

\* The links of a result; the result for fewer than 2 signals has none
LinksOf(result) ==
    IF "links" \in DOMAIN result THEN result.links ELSE << >>

\* C25, as stated: calculateCorrelation returns 0 whenever a series is
\* constant, so getRealCausalAnalysis returns no link that involves a
\* constant series, and for fewer than 2 signals it returns no nodes and no
\* links.
C25_ConstantSeriesNoLink ==
    riRet.op = "getRealCausalAnalysis" =>
        /\ Len(riRet.signals) < 2 =>
               riRet.result.nodes = << >> /\ LinksOf(riRet.result) = << >>
        /\ \A i \in DOMAIN riRet.correlations :
              LET c == riRet.correlations[i]
              IN (ConstantSeries(FieldOf(c.source))
                    \/ ConstantSeries(FieldOf(c.target))) =>
                     /\ c.val = FlZero
                     /\ \A k \in DOMAIN LinksOf(riRet.result) :
                           ~(/\ LinksOf(riRet.result)[k].source = c.source
                             /\ LinksOf(riRet.result)[k].target = c.target)

(***************************************************************************)
(* C26: the duration reported with a failure                               *)
(***************************************************************************)

\* The newest entry of the history breaches, alone, the threshold of the
\* rule that checkFailure reported
NewestMatches ==
    /\ history # << >>
    /\ Match(feRet.failureType, history[Len(history)], baselineAccuracy, baselineLoss)

\* C26, as stated: whenever checkFailure reports isFailure = true the
\* reported failureDuration is at least 1 and at most the history length, and
\* whenever it reports isFailure = false the failureDuration is 0.
C26_OriginalDurationAtLeastOne ==
    feRet.op = "checkFailure" =>
        /\ feRet.isFailure =>
               feRet.failureDuration >= 1 /\ feRet.failureDuration <= Len(history)
        /\ ~feRet.isFailure => feRet.failureDuration = 0

\* C26, amended: whenever checkFailure reports isFailure = true the
\* failureDuration is between 0 and the history length, and it is 0 exactly
\* when the newest entry alone does not breach the threshold of the reported
\* rule (the window mean can breach it while the newest entry does not);
\* whenever it reports isFailure = false the failureDuration is 0.
C26_DurationBounds ==
    feRet.op = "checkFailure" =>
        /\ feRet.isFailure =>
               /\ feRet.failureDuration >= 0
               /\ feRet.failureDuration <= Len(history)
               /\ feRet.failureDuration = 0 <=> ~NewestMatches
        /\ ~feRet.isFailure => feRet.failureDuration = 0

\* a failure is reported with duration 0: the window mean breaches the
\* threshold, the newest entry does not
C26_Witness ==
    /\ feRet.op = "checkFailure"
    /\ feRet.isFailure
    /\ feRet.failureDuration = 0
    /\ Len(history) >= windowSize
    /\ ~NewestMatches

(***************************************************************************)
(* C27: ablation is monotone                                               *)
(***************************************************************************)

\* The levels in rising order
LevelRank(level) ==
    CASE level = "Low" -> 0
      [] level = "Emerging" -> 1
      [] level = "Elevated" -> 2
      [] level = "Critical" -> 3

\* C27: for every signal scored and every two ablation sets A and B with A a
\* subset of B, the raw penalty sum and the score of predictFailureRisk under
\* B are at most those under A and the level under B is never higher than
\* under A; B is the set last passed to setAblations, A any subset of it.
C27_AblationMonotone ==
    imRet.op = "predictFailureRisk" =>
        LET s == imRet.arg
            underB == imRet.result
        IN \A A \in SUBSET ablations :
              LET underA == predictFailureRisk(s, WeightsOf(A))
              IN /\ RiskScore(s, weights) <= RiskScore(s, WeightsOf(A))
                 /\ underB.score <= underA.score
                 /\ LevelRank(underB.level) <= LevelRank(underA.level)

\* a signal was scored under an ablation that lowers its raw sum, its score
\* and its level below those it has with nothing ablated
C27_Witness ==
    /\ imRet.op = "predictFailureRisk"
    /\ ablations # {}
    /\ LET underNone == predictFailureRisk(imRet.arg, WeightsOf({}))
       IN /\ RiskScore(imRet.arg, weights) < RiskScore(imRet.arg, WeightsOf({}))
          /\ imRet.result.score < underNone.score
          /\ LevelRank(imRet.result.level) < LevelRank(underNone.level)

(***************************************************************************)
(* C28: polling and isRunning                                              *)
(***************************************************************************)

\* C28: under every interleaving of handleStartExperiment with its awaited
\* calls, handleStopExperiment, handleResetConfig, restoreState and the poll
\* callbacks, no polling timer is set while isRunning is false.
C28_NoPollingWhenStopped == ~isRunning => timers = {}

(***************************************************************************)
(* C29: the edges of every causal graph                                    *)
(***************************************************************************)

\* C29: every graph returned by discoverCausalStructure has at least one
\* edge and at most six; when isFailing is true the edge
\* act_entropy -> failure_risk is present, when isFailing is false some rule
\* edge or the two default edges are present; conf_disp is never an endpoint
\* of an edge and failure_risk never the source of one.
C29_EdgeBounds ==
    ceRet.op = "discoverCausalStructure" =>
        LET ls == ceRet.result.links
            es == EdgeSet(ls)
        IN /\ Len(ls) >= 1
           /\ Len(ls) <= 6
           /\ ceRet.isFailing =>
                 \E e \in es : e.source = "act_entropy" /\ e.target = "failure_risk"
           /\ ~ceRet.isFailing =>
                 \/ es \cap RuleEdges(ceRet.arg, FALSE) # {}
                 \/ DefaultEdges \subseteq es
           /\ \A e \in es :
                 /\ e.source # "conf_disp"
                 /\ e.target # "conf_disp"
                 /\ e.source # "failure_risk"

\* a failing run whose signals fire no rule: the graph has the one edge
\* act_entropy -> failure_risk and no default edge
C29_Witness ==
    /\ ceRet.op = "discoverCausalStructure"
    /\ ceRet.isFailing
    /\ ceRet.arg.activationEntropy >= 1000
    /\ ceRet.arg.lossCurvature <= 1000
    /\ ceRet.arg.deadNeuronRatio <= 100
    /\ ceRet.arg.latentDrift <= 400
    /\ Len(ceRet.result.links) = 1
    /\ ceRet.result.links[1].source = "act_entropy"
    /\ ceRet.result.links[1].target = "failure_risk"

(***************************************************************************)
(* C30: the size of the memory, and what findSimilar leaves alone          *)
(***************************************************************************)

\* C30: after construction and any sequence of addEpisode and findSimilar
\* calls the size of the memory is min(100, 2 + number of addEpisode calls),
\* so it is never below 2 and never decreases; findSimilar leaves the stored
\* episodes and their order unchanged and returns exactly min(3, size)
\* results, hence 2 or 3.
C30_SizeAndFrame ==
    [][/\ Len(episodes') = Min(MemoryCapacity, Len(inserted'))
       /\ Len(episodes') >= 2
       /\ Len(episodes') >= Len(episodes)
       /\ emRet'.op = "addEpisode" => Len(inserted') = Len(inserted) + 1
       /\ emRet'.op = "findSimilar" =>
             /\ episodes' = episodes
             /\ inserted' = inserted
             /\ Len(emRet'.results) = Min(TopK, Len(episodes))
             /\ Len(emRet'.results) \in {2, 3}]_vars

\* findSimilar was called on the full memory, after an eviction, and
\* returned three results
C30_Witness ==
    /\ emRet.op = "findSimilar"
    /\ Len(inserted) > MemoryCapacity
    /\ Len(episodes) = MemoryCapacity
    /\ Len(emRet.results) = 3

====
